---- MODULE Spec2Model ----
(***************************************************************************)
(* News_automator: the two trend collectors (RSSCollector and              *)
(* NewsAPICollector), their categorizers and scorers, and the main         *)
(* script that runs both and combines their summaries.                     *)
(*                                                                         *)
(* Strings that the code searches (titles, descriptions, source names)     *)
(* are sequences of one-character strings, so that lower-casing and the    *)
(* substring tests of the code are computed, not assumed.  Python's None   *)
(* is the one-element sequence NoneVal.  A timestamp string is a record    *)
(* [shape, age]: the syntactic shape decides which parser accepts it, and  *)
(* age is the number of minutes between the instant it denotes and         *)
(* datetime.now() at the moment of scoring.                                *)
(***************************************************************************)
EXTENDS Integers, Sequences, FiniteSets, TLC

(* ------------------------------ bounds --------------------------------- *)
\* oldest article age, in minutes, that the scoring inputs cover (72 h)
MaxAgeMin == 4320
\* largest number of vocabulary words in a title given to a categorizer
MaxWords == 2

(* --------------------------- text primitives --------------------------- *)
NoneVal == <<"<None>">>

IsNone(x) == x = NoneVal

\* Python truthiness of an Optional[str]: None and '' are falsy
Truthy(x) == x # NoneVal /\ x # <<>>

UpperToLower ==
  ("A" :> "a") @@ ("B" :> "b") @@ ("C" :> "c") @@ ("D" :> "d") @@ ("E" :> "e") @@ ("F" :> "f") @@
  ("G" :> "g") @@ ("H" :> "h") @@ ("I" :> "i") @@ ("J" :> "j") @@ ("K" :> "k") @@ ("L" :> "l") @@
  ("M" :> "m") @@ ("N" :> "n") @@ ("O" :> "o") @@ ("P" :> "p") @@ ("Q" :> "q") @@ ("R" :> "r") @@
  ("S" :> "s") @@ ("T" :> "t") @@ ("U" :> "u") @@ ("V" :> "v") @@ ("W" :> "w") @@ ("X" :> "x") @@
  ("Y" :> "y") @@ ("Z" :> "z")

\* str.lower()
Lower(s) == [i \in 1..Len(s) |->
               IF s[i] \in DOMAIN UpperToLower THEN UpperToLower[s[i]] ELSE s[i]]

\* `word in text` for two str
Contains(text, word) ==
  \E i \in 1..(Len(text) - Len(word) + 1) :
     SubSeq(text, i, i + Len(word) - 1) = word

\* any(word in text for word in words)
AnyIn(text, words) == \E k \in 1..Len(words) : Contains(text, words[k])

Min(a, b) == IF a < b THEN a ELSE b

TypeError == "TypeError"

(* ------------------- RSSCollector._categorize_article ------------------ *)
RssSourceRules ==
  << <<"t","e","c","h","c","r","u","n","c","h">>,
     <<"v","e","r","g","e">>,
     <<"h","a","c","k","e","r">> >>

RssCategories ==
  << [name |-> "Technology",
      keywords |-> << <<"t","e","c","h">>,
                     <<"a","i">>,
                     <<"s","o","f","t","w","a","r","e">>,
                     <<"a","p","p">>,
                     <<"c","y","b","e","r">>,
                     <<"d","i","g","i","t","a","l">> >>],
     [name |-> "Business",
      keywords |-> << <<"b","u","s","i","n","e","s","s">>,
                     <<"m","a","r","k","e","t">>,
                     <<"s","t","o","c","k">>,
                     <<"e","c","o","n","o","m","y">>,
                     <<"f","i","n","a","n","c","e">> >>],
     [name |-> "Politics",
      keywords |-> << <<"p","o","l","i","t","i","c","s">>,
                     <<"g","o","v","e","r","n","m","e","n","t">>,
                     <<"e","l","e","c","t","i","o","n">>,
                     <<"p","r","e","s","i","d","e","n","t">> >>],
     [name |-> "Sports",
      keywords |-> << <<"s","p","o","r","t","s">>,
                     <<"g","a","m","e">>,
                     <<"p","l","a","y","e","r">>,
                     <<"t","e","a","m">> >>],
     [name |-> "Health",
      keywords |-> << <<"h","e","a","l","t","h">>,
                     <<"m","e","d","i","c","a","l">>,
                     <<"v","a","c","c","i","n","e">>,
                     <<"d","i","s","e","a","s","e">> >>],
     [name |-> "Science",
      keywords |-> << <<"s","c","i","e","n","c","e">>,
                     <<"r","e","s","e","a","r","c","h">>,
                     <<"s","t","u","d","y">>,
                     <<"s","p","a","c","e">> >>] >>

\* the if/elif chain over the keyword lists, from rule k on
RECURSIVE FirstMatch(_, _, _)
FirstMatch(rules, text, k) ==
  IF k > Len(rules) THEN "General"
  ELSE IF AnyIn(text, rules[k].keywords) THEN rules[k].name
  ELSE FirstMatch(rules, text, k + 1)

\* mutant: the source-name rule is not consulted
CategorizeArticleNoSourceRule(article) ==
  IF IsNone(article.title) \/ IsNone(article.description) THEN TypeError
  ELSE FirstMatch(RssCategories,
                  Lower(article.title \o <<" ">> \o article.description), 1)

CategorizeArticle(article) ==
  IF IsNone(article.title) \/ IsNone(article.description) THEN TypeError
  ELSE LET title_desc == Lower(article.title \o <<" ">> \o article.description)
           source == Lower(article.source)
       IN IF AnyIn(source, RssSourceRules) THEN "Technology"
          ELSE FirstMatch(RssCategories, title_desc, 1)

(* ------------------ NewsAPICollector._extract_category ----------------- *)
ApiCategories ==
  << [name |-> "Technology",
      keywords |-> << <<"t","e","c","h">>,
                     <<"a","i">>,
                     <<"s","o","f","t","w","a","r","e">>,
                     <<"c","o","m","p","u","t","e","r">>,
                     <<"d","i","g","i","t","a","l">>,
                     <<"i","n","t","e","r","n","e","t">>,
                     <<"a","p","p">>,
                     <<"c","y","b","e","r">> >>],
     [name |-> "Business",
      keywords |-> << <<"b","u","s","i","n","e","s","s">>,
                     <<"m","a","r","k","e","t">>,
                     <<"s","t","o","c","k">>,
                     <<"e","c","o","n","o","m","y">>,
                     <<"t","r","a","d","e">>,
                     <<"f","i","n","a","n","c","e">>,
                     <<"c","o","m","p","a","n","y">> >>],
     [name |-> "Politics",
      keywords |-> << <<"p","o","l","i","t","i","c","s">>,
                     <<"g","o","v","e","r","n","m","e","n","t">>,
                     <<"e","l","e","c","t","i","o","n">>,
                     <<"c","o","n","g","r","e","s","s">>,
                     <<"s","e","n","a","t","e">>,
                     <<"p","r","e","s","i","d","e","n","t">>,
                     <<"p","o","l","i","c","y">> >>],
     [name |-> "Sports",
      keywords |-> << <<"s","p","o","r","t","s">>,
                     <<"g","a","m","e">>,
                     <<"p","l","a","y","e","r">>,
                     <<"t","e","a","m">>,
                     <<"c","h","a","m","p","i","o","n","s","h","i","p">>,
                     <<"n","f","l">>,
                     <<"n","b","a">>,
                     <<"s","o","c","c","e","r">> >>],
     [name |-> "Entertainment",
      keywords |-> << <<"m","o","v","i","e">>,
                     <<"m","u","s","i","c">>,
                     <<"c","e","l","e","b","r","i","t","y">>,
                     <<"a","c","t","o","r">>,
                     <<"f","i","l","m">>,
                     <<"t","v">>,
                     <<"s","h","o","w">>,
                     <<"e","n","t","e","r","t","a","i","n","m","e","n","t">> >>],
     [name |-> "Health",
      keywords |-> << <<"h","e","a","l","t","h">>,
                     <<"m","e","d","i","c","a","l">>,
                     <<"d","o","c","t","o","r">>,
                     <<"d","i","s","e","a","s","e">>,
                     <<"h","o","s","p","i","t","a","l">>,
                     <<"t","r","e","a","t","m","e","n","t">>,
                     <<"v","a","c","c","i","n","e">> >>],
     [name |-> "Science",
      keywords |-> << <<"s","c","i","e","n","c","e">>,
                     <<"r","e","s","e","a","r","c","h">>,
                     <<"s","t","u","d","y">>,
                     <<"s","c","i","e","n","t","i","s","t">>,
                     <<"d","i","s","c","o","v","e","r","y">>,
                     <<"s","p","a","c","e">>,
                     <<"n","a","s","a">> >>] >>

\* mutant: the Business rule is tried before the Technology rule
ExtractCategoryBusinessFirst(article) ==
  IF IsNone(article.title) \/ IsNone(article.description) THEN TypeError
  ELSE LET title_desc == Lower(article.title \o <<" ">> \o article.description)
       IN IF AnyIn(title_desc, ApiCategories[2].keywords) THEN "Business"
          ELSE FirstMatch(ApiCategories, title_desc, 1)

ExtractCategory(article) ==
  IF IsNone(article.title) \/ IsNone(article.description) THEN TypeError
  ELSE LET title_desc == Lower(article.title \o <<" ">> \o article.description)
       IN FirstMatch(ApiCategories, title_desc, 1)

(* ------------------------------ timestamps ----------------------------- *)
\* Shapes of a timestamp string, by example:
\*   "none"          the field is None (an element with no text)
\*   "empty"         ''
\*   "rfc822_offset" 'Mon, 01 Jan 2024 10:00:00 +0000'
\*   "rfc822_gmt"    'Mon, 01 Jan 2024 10:00:00 GMT'
\*   "iso_offset"    '2024-01-01T10:00:00+00:00'
\*   "iso_z"         '2024-01-01T10:00:00Z'
\*   "iso_naive"     '2024-01-01T10:00:00'
\*   "garbage"       'yesterday'
DatedShapes == {"rfc822_offset", "rfc822_gmt", "iso_offset", "iso_z", "iso_naive"}

UndatedShapes == {"none", "empty", "garbage"}

Ages == {m \in (0 - 60)..MaxAgeMin : m % 30 = 0 \/ m % 60 = 59}

Timestamps ==
  {[shape |-> s, age |-> a] : s \in DatedShapes, a \in Ages}
    \cup {[shape |-> s, age |-> 0] : s \in UndatedShapes}

\* `if not s` / `if s` on a timestamp field
TsTruthy(ts) == ts.shape \notin {"none", "empty"}

\* the formats _calculate_recency tries, in order
RecencyFormats == <<"%a, %d %b %Y %H:%M:%S %z", "%Y-%m-%dT%H:%M:%S%z", "%Y-%m-%dT%H:%M:%SZ">>

\* datetime.strptime(s, fmt) succeeds (%z accepts +hhmm, +hh:mm and Z, not a zone name)
StrptimeParses(shape, fmt) ==
  \/ fmt = RecencyFormats[1] /\ shape = "rfc822_offset"
  \/ fmt = RecencyFormats[2] /\ shape \in {"iso_offset", "iso_z"}
  \/ fmt = RecencyFormats[3] /\ shape = "iso_z"

\* datetime.fromisoformat(s.replace('Z', '+00:00')) succeeds
FromIsoParses(shape) == shape \in {"iso_offset", "iso_z", "iso_naive"}

\* hours_old < h, with the age kept in minutes
HoursOldBelow(age, h) == age < h * 60

(* -------------------- RSSCollector._calculate_recency ------------------ *)
\* mutant: the breakpoints are inclusive (<= instead of <)
RecencyBucketInclusive(age) ==
  IF age <= 1 * 60 THEN 100
  ELSE IF age <= 6 * 60 THEN 90
  ELSE IF age <= 24 * 60 THEN 70
  ELSE IF age <= 48 * 60 THEN 50
  ELSE 30

RecencyBucket(age) ==
  IF HoursOldBelow(age, 1) THEN 100
  ELSE IF HoursOldBelow(age, 6) THEN 90
  ELSE IF HoursOldBelow(age, 24) THEN 70
  ELSE IF HoursOldBelow(age, 48) THEN 50
  ELSE 30

\* the for loop over the formats, from format k on
RECURSIVE TryFormats(_, _)
TryFormats(ts, k) ==
  IF k > Len(RecencyFormats) THEN 25
  ELSE IF StrptimeParses(ts.shape, RecencyFormats[k]) THEN RecencyBucket(ts.age)
  ELSE TryFormats(ts, k + 1)

\* mutant: the 24 h and 48 h breakpoints are swapped
CalculateRecencySwapped(pub_date_str) ==
  IF ~TsTruthy(pub_date_str) THEN 0
  ELSE IF \A k \in 1..Len(RecencyFormats) :
             ~StrptimeParses(pub_date_str.shape, RecencyFormats[k]) THEN 25
  ELSE IF HoursOldBelow(pub_date_str.age, 1) THEN 100
  ELSE IF HoursOldBelow(pub_date_str.age, 6) THEN 90
  ELSE IF HoursOldBelow(pub_date_str.age, 48) THEN 70
  ELSE IF HoursOldBelow(pub_date_str.age, 24) THEN 50
  ELSE 30

\* mutant: a timestamp that no format parses falls through to the oldest bucket
CalculateRecencyNoDefault(pub_date_str) ==
  IF ~TsTruthy(pub_date_str) THEN 0
  ELSE IF \A k \in 1..Len(RecencyFormats) :
             ~StrptimeParses(pub_date_str.shape, RecencyFormats[k]) THEN 30
  ELSE RecencyBucket(pub_date_str.age)

CalculateRecency(pub_date_str) ==
  IF ~TsTruthy(pub_date_str) THEN 0
  ELSE TryFormats(pub_date_str, 1)

(* ---------------- NewsAPICollector._calculate_engagement --------------- *)
Reputable ==
  << <<"b","b","c">>,
     <<"c","n","n">>,
     <<"r","e","u","t","e","r","s">>,
     <<"a","p">>,
     <<"n","y","t">>,
     <<"w","a","s","h","i","n","g","t","o","n"," ","p","o","s","t">>,
     <<"g","u","a","r","d","i","a","n">> >>

\* mutant: both recency boosts are granted (if instead of elif) and the cap is lost
CalculateEngagementUncapped(article) ==
  LET published == article.publishedAt
      parsed == TsTruthy(published) /\ FromIsoParses(published.shape)
  IN 50
     + (IF AnyIn(Lower(article.source_name), Reputable) THEN 20 ELSE 0)
     + (IF parsed /\ HoursOldBelow(published.age, 24) THEN 20 ELSE 0)
     + (IF parsed /\ HoursOldBelow(published.age, 48) THEN 10 ELSE 0)
     + (IF Truthy(article.description) THEN 10 ELSE 0)

\* mutant: the source name is matched without lower-casing it
CalculateEngagementCaseSensitive(article) ==
  LET published == article.publishedAt
      parsed == TsTruthy(published) /\ FromIsoParses(published.shape)
  IN Min(50
         + (IF AnyIn(article.source_name, Reputable) THEN 20 ELSE 0)
         + (IF parsed /\ HoursOldBelow(published.age, 24) THEN 20
            ELSE IF parsed /\ HoursOldBelow(published.age, 48) THEN 10 ELSE 0)
         + (IF Truthy(article.description) THEN 10 ELSE 0),
         100)

CalculateEngagement(article) ==
  LET source == Lower(article.source_name)
      score1 == 50 + (IF AnyIn(source, Reputable) THEN 20 ELSE 0)
      published == article.publishedAt
      score2 == IF TsTruthy(published) /\ FromIsoParses(published.shape)
                THEN IF HoursOldBelow(published.age, 24) THEN score1 + 20
                     ELSE IF HoursOldBelow(published.age, 48) THEN score1 + 10
                     ELSE score1
                ELSE score1
      score3 == IF Truthy(article.description) THEN score2 + 10 ELSE score2
  IN Min(score3, 100)

(* ----------------- inputs of the categorizers and scorers --------------- *)
Vocabulary ==
  { <<"t","e","c","h">>,
    <<"e","c","o","n","o","m","y">>,
    <<"s","a","i","d">>,
    <<"M","a","r","k","e","t">>,
    <<"g","a","m","e">>,
    <<"f","i","l","m">>,
    <<"v","a","c","c","i","n","e">>,
    <<"s","p","a","c","e">>,
    <<"w","e","a","t","h","e","r">> }

\* titles of one to n vocabulary words, joined by blanks
RECURSIVE TitlesOf(_)
TitlesOf(n) ==
  IF n <= 1 THEN Vocabulary
  ELSE TitlesOf(n - 1)
         \cup {t \o <<" ">> \o v : t \in TitlesOf(n - 1), v \in Vocabulary}

SampleDescriptions ==
  { <<>>, NoneVal, <<"e","c","o","n","o","m","y">>, <<"T","E","C","H">> }

FeedNames ==
  << <<"B","B","C"," ","N","e","w","s">>,
     <<"C","N","N">>,
     <<"T","e","c","h","C","r","u","n","c","h">>,
     <<"T","h","e"," ","V","e","r","g","e">>,
     <<"R","e","u","t","e","r","s">>,
     <<"H","a","c","k","e","r"," ","N","e","w","s">> >>

SampleSourceNames ==
  { <<"B","B","C"," ","N","e","w","s">>,
    <<"S","n","a","p","c","h","a","t">>,
    <<"W","i","r","e","d">>, <<>> }

CategoryInputs ==
  {[title |-> t, description |-> d, source |-> s] :
      t \in TitlesOf(MaxWords), d \in SampleDescriptions,
      s \in {FeedNames[1], FeedNames[3], FeedNames[4]}}

EngagementInputs ==
  {[source_name |-> s, publishedAt |-> p, description |-> d] :
      s \in SampleSourceNames, p \in Timestamps,
      d \in {<<>>, NoneVal, <<"e","c","o","n","o","m","y">>}}

(* ------------------------------ more bounds ---------------------------- *)
\* number of the configured feeds that the model monitors
NumFeeds == 2
\* number of the configured headline categories that the model requests
NumCategories == 2
\* most articles one collection run gathers over all its fetches
MaxArticles == 3
\* largest top_n a direct call of collect_comprehensive_trends is given
MaxTopN == 3

(* ------------------------------ Config --------------------------------- *)
NEWS_TOP_N == 20

RSS_TOP_N == 20

RSS_MAX_ITEMS_PER_FEED == 15

NEWS_CATEGORIES == <<"general", "technology", "business", "science">>

\* the categories requested, in order
Categories == SubSeq(NEWS_CATEGORIES, 1, Min(NumCategories, Len(NEWS_CATEGORIES)))

\* order in which the configured feeds enter the model as NumFeeds grows
FeedPick == <<1, 3, 4, 2, 5, 6>>

RECURSIVE KeepAt(_, _, _)
KeepAt(seq, idx, k) ==
  IF k > Len(seq) THEN <<>>
  ELSE (IF k \in idx THEN <<seq[k]>> ELSE <<>>) \o KeepAt(seq, idx, k + 1)

\* self.feeds, in dictionary order, restricted to the monitored feeds
Feeds ==
  KeepAt(FeedNames, {FeedPick[k] : k \in 1..Min(NumFeeds, Len(FeedPick))}, 1)

(* ----------------------- what the network serves ----------------------- *)
\* an XML child element that is missing (find() returns None)
Absent == <<"<absent>">>

\* <item> elements of an RSS 2.0 document
RssItems ==
  { [title |-> <<"A","I"," ","l","a","b">>, description |-> Absent, link |-> "u1",
     pubDate |-> [shape |-> "rfc822_offset", age |-> 30]],
    [title |-> <<"S","t","o","c","k"," ","m","a","r","k","e","t">>, description |-> <<"e","c","o","n","o","m","y">>, link |-> "u2",
     pubDate |-> [shape |-> "rfc822_gmt", age |-> 30]],
    [title |-> NoneVal, description |-> <<"g","a","m","e">>, link |-> "u3",
     pubDate |-> [shape |-> "iso_z", age |-> 30]],
    [title |-> <<"T","e","a","m"," ","w","i","n","s">>, description |-> NoneVal, link |-> "u4",
     pubDate |-> [shape |-> "iso_z", age |-> 1500]] }

\* the same records as <entry> elements of an Atom document
AtomOf(item) ==
  [title |-> item.title, summary |-> item.description, href |-> item.link,
   published |-> item.pubDate]

AtomEntries == {AtomOf(i) : i \in RssItems}

\* articles of a headline response
ApiArticles ==
  { [title |-> <<"A","I"," ","c","h","i","p">>, description |-> <<"n","e","w"," ","t","e","c","h">>,
     source_name |-> <<"B","B","C"," ","N","e","w","s">>, author |-> "ann",
     publishedAt |-> [shape |-> "iso_z", age |-> 30], url |-> "a1"],
    [title |-> <<"S","t","o","c","k"," ","m","a","r","k","e","t">>, description |-> <<>>,
     source_name |-> <<"W","i","r","e","d">>, author |-> "bob",
     publishedAt |-> [shape |-> "garbage", age |-> 0], url |-> "a2"],
    [title |-> <<>>, description |-> <<"g","a","m","e">>,
     source_name |-> <<"W","i","r","e","d">>, author |-> "cy",
     publishedAt |-> [shape |-> "iso_z", age |-> 30], url |-> "a3"],
    [title |-> <<"F","i","l","m"," ","a","w","a","r","d","s">>, description |-> NoneVal,
     source_name |-> <<"S","n","a","p","c","h","a","t">>, author |-> "dee",
     publishedAt |-> [shape |-> "iso_z", age |-> 1500], url |-> "a4"] }

\* sequences over S of length 0..n
RECURSIVE SeqsUpTo(_, _)
SeqsUpTo(S, n) ==
  IF n <= 0 THEN {<<>>}
  ELSE SeqsUpTo(S, n - 1)
         \cup {Append(s, e) : s \in {t \in SeqsUpTo(S, n - 1) : Len(t) = n - 1}, e \in S}

\* feed documents of at most n elements: RSS documents, Atom documents of one
\* or two entries, and an RSS item followed by a stray Atom entry; ok = FALSE
\* is a request or an XML parse that raises
FeedDocs(n) ==
  {[ok |-> FALSE, items |-> <<>>, entries |-> <<>>]}
    \cup {[ok |-> TRUE, items |-> i, entries |-> <<>>] : i \in SeqsUpTo(RssItems, n)}
    \cup {[ok |-> TRUE, items |-> <<>>, entries |-> e] :
             e \in SeqsUpTo(AtomEntries, Min(n, 2)) \ {<<>>}}
    \cup {[ok |-> TRUE, items |-> <<i>>, entries |-> <<e>>] :
             i \in (IF n >= 2 THEN RssItems ELSE {}), e \in AtomEntries}

\* headline responses of at most n articles: "error" is a request or JSON
\* decode that raises, "api_error" a body whose status is not 'ok'
ApiResponses(n) ==
  {[kind |-> k, articles |-> <<>>] : k \in {"error", "api_error"}}
    \cup {[kind |-> "ok", articles |-> a] : a \in SeqsUpTo(ApiArticles, n)}

Take(s, n) == SubSeq(s, 1, Min(n, Len(s)))

(* -------------------------- RSSCollector ------------------------------- *)
ParseRssItem(item, source) ==
  [title |-> IF item.title # Absent THEN item.title ELSE <<>>,
   description |-> IF item.description # Absent THEN item.description ELSE <<>>,
   url |-> item.link,
   published_at |-> item.pubDate,
   source |-> source]

ParseAtomEntry(entry, source) ==
  [title |-> IF entry.title # Absent THEN entry.title ELSE <<>>,
   description |-> IF entry.summary # Absent THEN entry.summary ELSE <<>>,
   url |-> entry.href,
   published_at |-> entry.published,
   source |-> source]

\* mutant: the Atom pass runs whatever the RSS pass found
FetchFeedBoth(feed_name, doc, max_items) ==
  IF ~doc.ok THEN <<>>
  ELSE LET rss == Take(doc.items, max_items)
           atom == Take(doc.entries, max_items)
       IN [k \in 1..Len(rss) |-> ParseRssItem(rss[k], feed_name)]
            \o [k \in 1..Len(atom) |-> ParseAtomEntry(atom[k], feed_name)]

FetchFeed(feed_name, doc, max_items) ==
  IF ~doc.ok THEN <<>>
  ELSE LET rss == Take(doc.items, max_items)
           atom == Take(doc.entries, max_items)
           items == [k \in 1..Len(rss) |-> ParseRssItem(rss[k], feed_name)]
       IN IF items = <<>>
          THEN [k \in 1..Len(atom) |-> ParseAtomEntry(atom[k], feed_name)]
          ELSE items

\* list.sort(key=..., reverse=True) is stable: an element goes behind every
\* element already placed whose key is not smaller
InsertByScore(sorted, t, key) ==
  LET k == Cardinality({j \in 1..Len(sorted) : sorted[j][key] >= t[key]})
  IN SubSeq(sorted, 1, k) \o <<t>> \o SubSeq(sorted, k + 1, Len(sorted))

RECURSIVE SortFrom(_, _, _, _)
SortFrom(topics, key, i, sorted) ==
  IF i > Len(topics) THEN sorted
  ELSE SortFrom(topics, key, i + 1, InsertByScore(sorted, topics[i], key))

\* mutant: equal keys are placed in front of each other (an unstable sort)
SortByScoreUnstable(topics, key) ==
  LET RECURSIVE Go(_, _)
      Go(i, sorted) ==
        IF i > Len(topics) THEN sorted
        ELSE LET t == topics[i]
                 k == Cardinality({j \in 1..Len(sorted) : sorted[j][key] > t[key]})
             IN Go(i + 1, SubSeq(sorted, 1, k) \o <<t>> \o SubSeq(sorted, k + 1, Len(sorted)))
  IN Go(1, <<>>)

SortByScore(topics, key) == SortFrom(topics, key, 1, <<>>)

\* mutant: the ranks given while building the topics are kept
RerankKeep(topics) == topics

\* for i, topic in enumerate(topics, 1): topic['rank'] = i
Rerank(topics) == [k \in 1..Len(topics) |-> [topics[k] EXCEPT !.rank = k]]

RssTopic(article, i) ==
  [rank |-> i,
   title |-> article.title,
   description |-> Take(article.description, 200),
   source |-> article.source,
   published_at |-> article.published_at,
   url |-> article.url,
   category |-> CategorizeArticle(article),
   recency_score |-> CalculateRecency(article.published_at)]

\* mutant: an article without a title becomes a topic like any other
RssTopicsKeepUntitled(articles, i) ==
  [k \in 1..(Len(articles) + 1 - i) |-> RssTopic(articles[k + i - 1], k + i - 1)]

RECURSIVE RssTopicsFrom(_, _)
RssTopicsFrom(articles, i) ==
  IF i > Len(articles) THEN <<>>
  ELSE IF ~Truthy(articles[i].title) THEN RssTopicsFrom(articles, i + 1)
  ELSE <<RssTopic(articles[i], i)>> \o RssTopicsFrom(articles, i + 1)

\* None[:200] raises TypeError for a titled article whose description is None
AnalyzeRaises(articles) ==
  \E i \in 1..Len(articles) :
     Truthy(articles[i].title) /\ IsNone(articles[i].description)

\* RSSCollector.analyze_trending_topics, when it returns
RssAnalyzeTrendingTopics(articles) ==
  Rerank(SortByScore(RssTopicsFrom(articles, 1), "recency_score"))

EmptyDict == [k \in {} |-> 0]

RECURSIVE CategoryStatsFrom(_, _, _)
CategoryStatsFrom(trends, i, category_counts) ==
  IF i > Len(trends) THEN category_counts
  ELSE LET cat == trends[i].category
       IN CategoryStatsFrom(trends, i + 1,
            IF cat \in DOMAIN category_counts
            THEN [category_counts EXCEPT ![cat] = @ + 1]
            ELSE category_counts @@ (cat :> 1))

\* mutant: a category is counted once, however many trends carry it
GetCategoryStatsOnce(trends) ==
  [c \in {trends[i].category : i \in 1..Len(trends)} |-> 1]

GetCategoryStats(trends) == CategoryStatsFrom(trends, 1, EmptyDict)

\* mutant: the list is cut to top_n before it is sorted
RssTopTrendsCutFirst(all_articles, top_n) ==
  Rerank(SortByScore(Take(RssTopicsFrom(all_articles, 1), top_n), "recency_score"))

\* trending_topics[:top_n]
RssTopTrends(all_articles, top_n) ==
  Take(RssAnalyzeTrendingTopics(all_articles), top_n)

\* the dict RSSCollector.collect_comprehensive_trends returns
RssResult(all_articles, top_n) ==
  LET trending_topics == RssAnalyzeTrendingTopics(all_articles)
      top_trends == RssTopTrends(all_articles, top_n)
  IN [source |-> "RSS Feeds",
      feeds_monitored |-> Feeds,
      total_articles |-> Len(all_articles),
      total_trending_topics |-> Len(trending_topics),
      top_trends_count |-> Len(top_trends),
      trends |-> top_trends,
      category_breakdown |-> GetCategoryStats(top_trends)]

(* ------------------------- NewsAPICollector ---------------------------- *)
GetTopHeadlines(resp) == IF resp.kind = "ok" THEN resp.articles ELSE <<>>

ApiTopic(article, i) ==
  [rank |-> i,
   title |-> article.title,
   description |-> Take(article.description, 200),
   source |-> article.source_name,
   author |-> article.author,
   published_at |-> article.publishedAt,
   url |-> article.url,
   category |-> ExtractCategory(article),
   engagement_score |-> CalculateEngagement(article)]

RECURSIVE ApiTopicsFrom(_, _)
ApiTopicsFrom(articles, i) ==
  IF i > Len(articles) THEN <<>>
  ELSE IF ~Truthy(articles[i].title) THEN ApiTopicsFrom(articles, i + 1)
  ELSE <<ApiTopic(articles[i], i)>> \o ApiTopicsFrom(articles, i + 1)

\* NewsAPICollector.analyze_trending_topics, when it returns
ApiAnalyzeTrendingTopics(articles) ==
  Rerank(SortByScore(ApiTopicsFrom(articles, 1), "engagement_score"))

ApiTopTrends(all_articles, top_n) ==
  Take(ApiAnalyzeTrendingTopics(all_articles), top_n)

\* the dict NewsAPICollector.collect_comprehensive_trends returns
ApiResult(all_articles, top_n) ==
  LET trending_topics == ApiAnalyzeTrendingTopics(all_articles)
      top_trends == ApiTopTrends(all_articles, top_n)
  IN [source |-> "NewsAPI",
      country |-> "us",
      categories_fetched |-> Categories,
      total_articles |-> Len(all_articles),
      total_trending_topics |-> Len(trending_topics),
      top_trends_count |-> Len(top_trends),
      trends |-> top_trends,
      category_breakdown |-> GetCategoryStats(top_trends)]

(* ------------------------------- state --------------------------------- *)
VARIABLES
  entry,          \* what was started: "main", or one collector's
                  \* collect_comprehensive_trends ("rss_collect", "news_collect"),
                  \* or a single scorer/categorizer call ("fn")
  pc,             \* position in the run
  cfg,            \* Config.NEWS_API_KEY set?, and the arguments of the collectors
  news_articles,  \* all_articles of NewsAPICollector.collect_comprehensive_trends
  rss_articles,   \* all_articles of RSSCollector.collect_comprehensive_trends
  fetch_log,      \* one entry per get_top_headlines / fetch_feed call made
  news_data,      \* what the API collection left the caller with
  rss_data,       \* what the feed collection left the caller with
  raised,         \* labels of the collections that raised
  combined_data,  \* the dict built by the combine step
  combined_file,  \* "None", or "written" once the combined file is dumped
  exit_code,      \* the value main returns to sys.exit, -1 before
  fn_in,          \* argument of the single call
  fn_out          \* its result

vars == <<entry, pc, cfg, news_articles, rss_articles, fetch_log, news_data,
          rss_data, raised, combined_data, combined_file, exit_code, fn_in, fn_out>>

pipeline_vars == <<entry, pc, cfg, news_articles, rss_articles, fetch_log, news_data,
                   rss_data, raised, combined_data, combined_file, exit_code>>

\* Python's None where a dict is expected
None == [none |-> TRUE]

\* `if d:` for d a dict or None
DictTruthy(d) == d # None /\ DOMAIN d # {}

NoResult == [done |-> FALSE, score |-> 0 - 1, category |-> ""]

Fetched(label) == Cardinality({k \in 1..Len(fetch_log) : fetch_log[k].source = label})

\* documents and responses served to a whole run of main are kept to one
\* element each; a direct run of one collector gets up to MaxArticles
AllFeedDocs == FeedDocs(MaxArticles)

MainFeedDocs == FeedDocs(1)

AllApiResponses == ApiResponses(MaxArticles)

MainApiResponses == ApiResponses(1)

Idle ==
  /\ news_articles = <<>> /\ rss_articles = <<>> /\ fetch_log = <<>>
  /\ news_data = None /\ rss_data = None /\ raised = {}
  /\ combined_data = None /\ combined_file = "None" /\ exit_code = 0 - 1

(* ------------------------------ main.py -------------------------------- *)
Init ==
  /\ entry = "main" /\ pc = "step1"
  /\ \E key \in BOOLEAN :
        cfg = [api_key |-> key, news_top_n |-> NEWS_TOP_N, rss_top_n |-> RSS_TOP_N,
               max_items |-> RSS_MAX_ITEMS_PER_FEED]
  /\ Idle
  /\ fn_in = [kind |-> "none"] /\ fn_out = NoResult

\* mutant: the API collector is built and run whether or not a key is set
Step1Unguarded ==
  /\ pc = "step1"
  /\ pc' = "news_fetch"
  /\ UNCHANGED <<entry, cfg, news_articles, rss_articles, fetch_log, news_data,
                 rss_data, raised, combined_data, combined_file, exit_code,
                 fn_in, fn_out>>

\* test_data_collection, step 1: the API source is attempted only with a key
Step1 ==
  /\ pc = "step1"
  /\ pc' = IF cfg.api_key THEN "news_fetch" ELSE "rss_fetch"
  /\ UNCHANGED <<entry, cfg, news_articles, rss_articles, fetch_log, news_data,
                 rss_data, raised, combined_data, combined_file, exit_code,
                 fn_in, fn_out>>

\* one turn of `for category in categories`: get_top_headlines and extend
NewsFetch ==
  /\ pc = "news_fetch"
  /\ Fetched("NewsAPI") < Len(Categories)
  /\ \E resp \in (IF entry = "main" THEN MainApiResponses ELSE AllApiResponses) :
        LET articles == GetTopHeadlines(resp)
        IN /\ Len(news_articles) + Len(articles) <= MaxArticles
           /\ news_articles' = news_articles \o articles
           /\ fetch_log' = Append(fetch_log,
                 [source |-> "NewsAPI", what |-> Categories[Fetched("NewsAPI") + 1],
                  ok |-> resp.kind = "ok", n |-> Len(articles)])
  /\ UNCHANGED <<entry, pc, cfg, rss_articles, news_data, rss_data, raised,
                 combined_data, combined_file, exit_code, fn_in, fn_out>>

\* the rest of NewsAPICollector.collect_comprehensive_trends, and what its
\* caller keeps: an exception leaves the caller with None
NewsCollect ==
  /\ pc = "news_fetch"
  /\ Fetched("NewsAPI") = Len(Categories)
  /\ IF AnalyzeRaises(news_articles)
     THEN /\ news_data' = None
          /\ raised' = raised \cup {"NewsAPI"}
     ELSE /\ LET result == ApiResult(news_articles, cfg.news_top_n)
             IN news_data' = IF DictTruthy(result) THEN result ELSE None
          /\ UNCHANGED raised
  /\ pc' = IF entry = "main" THEN "rss_fetch" ELSE "done"
  /\ UNCHANGED <<entry, cfg, news_articles, rss_articles, fetch_log, rss_data,
                 combined_data, combined_file, exit_code, fn_in, fn_out>>

\* mutant: a failed request is not caught in fetch_feed and ends the collection
RssFetchStopsOnError ==
  /\ pc = "rss_fetch"
  /\ Fetched("RSS Feeds") < Len(Feeds)
  /\ \E doc \in (IF entry = "main" THEN MainFeedDocs ELSE AllFeedDocs) :
        LET feed_name == Feeds[Fetched("RSS Feeds") + 1]
            articles == FetchFeed(feed_name, doc, cfg.max_items)
        IN /\ Len(rss_articles) + Len(articles) <= MaxArticles
           /\ rss_articles' = rss_articles \o articles
           /\ fetch_log' = Append(fetch_log,
                 [source |-> "RSS Feeds", what |-> feed_name,
                  ok |-> doc.ok, n |-> Len(articles)])
           /\ IF doc.ok
              THEN UNCHANGED <<pc, raised>>
              ELSE /\ pc' = IF entry = "main" THEN "combine" ELSE "done"
                   /\ raised' = raised \cup {"RSS Feeds"}
  /\ UNCHANGED <<entry, cfg, news_articles, news_data, rss_data,
                 combined_data, combined_file, exit_code, fn_in, fn_out>>

\* one turn of `for feed_name, feed_url in self.feeds.items()`: fetch_feed and extend
RssFetch ==
  /\ pc = "rss_fetch"
  /\ Fetched("RSS Feeds") < Len(Feeds)
  /\ \E doc \in (IF entry = "main" THEN MainFeedDocs ELSE AllFeedDocs) :
        LET feed_name == Feeds[Fetched("RSS Feeds") + 1]
            articles == FetchFeed(feed_name, doc, cfg.max_items)
        IN /\ Len(rss_articles) + Len(articles) <= MaxArticles
           /\ rss_articles' = rss_articles \o articles
           /\ fetch_log' = Append(fetch_log,
                 [source |-> "RSS Feeds", what |-> feed_name,
                  ok |-> doc.ok, n |-> Len(articles)])
  /\ UNCHANGED <<entry, pc, cfg, news_articles, news_data, rss_data, raised,
                 combined_data, combined_file, exit_code, fn_in, fn_out>>

\* the rest of RSSCollector.collect_comprehensive_trends, and what its caller keeps
RssCollect ==
  /\ pc = "rss_fetch"
  /\ Fetched("RSS Feeds") = Len(Feeds)
  /\ IF AnalyzeRaises(rss_articles)
     THEN /\ rss_data' = None
          /\ raised' = raised \cup {"RSS Feeds"}
     ELSE /\ LET result == RssResult(rss_articles, cfg.rss_top_n)
             IN rss_data' = IF DictTruthy(result) THEN result ELSE None
          /\ UNCHANGED raised
  /\ pc' = IF entry = "main" THEN "combine" ELSE "done"
  /\ UNCHANGED <<entry, cfg, news_articles, rss_articles, fetch_log, news_data,
                 combined_data, combined_file, exit_code, fn_in, fn_out>>

\* combined_data['sources'], in append order
CombinedSources(news, rss) ==
  (IF DictTruthy(news) THEN <<"NewsAPI">> ELSE <<>>)
    \o (IF DictTruthy(rss) THEN <<"RSS Feeds">> ELSE <<>>)

\* test_data_collection, step 3: build the combined dict and dump it
Combine ==
  /\ pc = "combine"
  /\ combined_data' =
        [sources |-> CombinedSources(news_data, rss_data)]
          @@ (IF DictTruthy(news_data) THEN [newsapi |-> news_data] ELSE EmptyDict)
          @@ (IF DictTruthy(rss_data) THEN [rss_feeds |-> rss_data] ELSE EmptyDict)
  /\ combined_file' =
        IF CombinedSources(news_data, rss_data) # <<>> THEN "written" ELSE "None"
  /\ pc' = "return"
  /\ UNCHANGED <<entry, cfg, news_articles, rss_articles, fetch_log, news_data,
                 rss_data, raised, exit_code, fn_in, fn_out>>

\* mutant: the combined dict is returned whether or not a file was written
TestDataCollectionReturnsAlways(data, file) == data

\* return combined_data if combined_file else None
TestDataCollectionReturns(data, file) == IF file # "None" THEN data ELSE None

\* main: 0 if the result is truthy, else 1
MainReturn ==
  /\ pc = "return"
  /\ exit_code' =
        IF DictTruthy(TestDataCollectionReturns(combined_data, combined_file))
        THEN 0 ELSE 1
  /\ pc' = "exit"
  /\ UNCHANGED <<entry, cfg, news_articles, rss_articles, fetch_log, news_data,
                 rss_data, raised, combined_data, combined_file, fn_in, fn_out>>

Next ==
  \/ Step1
  \/ NewsFetch
  \/ NewsCollect
  \/ RssFetch
  \/ RssCollect
  \/ Combine
  \/ MainReturn

Spec == Init /\ [][Next]_vars

(* ------ one collector's collect_comprehensive_trends, called directly ---- *)
CollectInit ==
  /\ \/ /\ entry = "rss_collect" /\ pc = "rss_fetch"
        /\ \E n \in 0..MaxTopN, m \in {1, RSS_MAX_ITEMS_PER_FEED} :
              cfg = [api_key |-> FALSE, news_top_n |-> NEWS_TOP_N, rss_top_n |-> n,
                     max_items |-> m]
     \/ /\ entry = "news_collect" /\ pc = "news_fetch"
        /\ \E n \in 0..MaxTopN :
              cfg = [api_key |-> TRUE, news_top_n |-> n, rss_top_n |-> RSS_TOP_N,
                     max_items |-> RSS_MAX_ITEMS_PER_FEED]
  /\ Idle
  /\ fn_in = [kind |-> "none"] /\ fn_out = NoResult

CollectNext ==
  \/ NewsFetch
  \/ NewsCollect
  \/ RssFetch
  \/ RssCollect

SpecCollect == CollectInit /\ [][CollectNext]_vars

(* ----- a single call of one categorizer or scorer on a drawn input ----- *)
\* the max_items a caller passes to fetch_feed: none, one, the configured
\* limit and the parameter's default
FetchLimits == {0, 1, RSS_MAX_ITEMS_PER_FEED, 20}

FnInit ==
  /\ entry = "fn" /\ pc = "call"
  /\ cfg = [api_key |-> FALSE, news_top_n |-> NEWS_TOP_N, rss_top_n |-> RSS_TOP_N,
            max_items |-> RSS_MAX_ITEMS_PER_FEED]
  /\ Idle
  /\ fn_out = NoResult
  /\ \/ \E ts \in Timestamps : fn_in = [kind |-> "recency", arg |-> ts]
     \/ \E a \in EngagementInputs : fn_in = [kind |-> "engagement", arg |-> a]
     \/ \E a \in CategoryInputs : fn_in = [kind |-> "rss_category", arg |-> a]
     \/ \E a \in CategoryInputs : fn_in = [kind |-> "api_category", arg |-> a]
     \/ \E doc \in AllFeedDocs, k \in 1..Len(Feeds), m \in FetchLimits :
           fn_in = [kind |-> "fetch_feed",
                    arg |-> [feed_name |-> Feeds[k], doc |-> doc, max_items |-> m]]

CallCalculateRecency ==
  /\ fn_in.kind = "recency" /\ ~fn_out.done
  /\ fn_out' = [done |-> TRUE, score |-> CalculateRecency(fn_in.arg), category |-> ""]
  /\ UNCHANGED <<pipeline_vars, fn_in>>

CallCalculateEngagement ==
  /\ fn_in.kind = "engagement" /\ ~fn_out.done
  /\ fn_out' = [done |-> TRUE, score |-> CalculateEngagement(fn_in.arg), category |-> ""]
  /\ UNCHANGED <<pipeline_vars, fn_in>>

CallCategorizeArticle ==
  /\ fn_in.kind = "rss_category" /\ ~fn_out.done
  /\ fn_out' = [done |-> TRUE, score |-> 0 - 1, category |-> CategorizeArticle(fn_in.arg)]
  /\ UNCHANGED <<pipeline_vars, fn_in>>

CallExtractCategory ==
  /\ fn_in.kind = "api_category" /\ ~fn_out.done
  /\ fn_out' = [done |-> TRUE, score |-> 0 - 1, category |-> ExtractCategory(fn_in.arg)]
  /\ UNCHANGED <<pipeline_vars, fn_in>>

\* RSSCollector.fetch_feed on one feed document
CallFetchFeed ==
  /\ fn_in.kind = "fetch_feed" /\ ~fn_out.done
  /\ fn_out' = [done |-> TRUE, score |-> 0 - 1, category |-> "",
                items |-> FetchFeed(fn_in.arg.feed_name, fn_in.arg.doc,
                                    fn_in.arg.max_items)]
  /\ UNCHANGED <<pipeline_vars, fn_in>>

FnNext ==
  \/ CallCalculateRecency
  \/ CallCalculateEngagement
  \/ CallCategorizeArticle
  \/ CallExtractCategory
  \/ CallFetchFeed

SpecFn == FnInit /\ [][FnNext]_vars

(* ======================= properties of the ranking ===================== *)
\* the summaries a collection has produced so far, with the call they came from
Summaries ==
  (IF rss_data # None
   THEN {[data |-> rss_data, top_n |-> cfg.rss_top_n, key |-> "recency_score",
          kind |-> "rss", articles |-> rss_articles]}
   ELSE {})
    \cup (IF news_data # None
          THEN {[data |-> news_data, top_n |-> cfg.news_top_n, key |-> "engagement_score",
                 kind |-> "api", articles |-> news_articles]}
          ELSE {})

\* C1: in both collectors the ranks of the returned trends are exactly
\* 1, 2, ..., len(trends) in list order, and len(trends) <= top_n
C1_RanksContiguous ==
  \A s \in Summaries :
     /\ Len(s.data.trends) <= s.top_n
     /\ \A k \in 1..Len(s.data.trends) : s.data.trends[k].rank = k

\* C1 witness: a feed summary cut to top_n, its first topic built from a later
\* article than its second
C1_Witness ==
  /\ rss_data # None
  /\ Len(rss_data.trends) = cfg.rss_top_n
  /\ rss_data.total_trending_topics > cfg.rss_top_n
  /\ Len(rss_data.trends) >= 2
  /\ rss_data.trends[1].recency_score > rss_data.trends[2].recency_score
  /\ Truthy(rss_articles[1].title)
  /\ rss_data.trends[1].url # rss_articles[1].url

\* indices of the titled articles, and the score each is given
Titled(articles) == {i \in 1..Len(articles) : Truthy(articles[i].title)}

ScoreOf(s, i) ==
  IF s.kind = "rss" THEN CalculateRecency(s.articles[i].published_at)
  ELSE CalculateEngagement(s.articles[i])

TopicOf(s, i) ==
  IF s.kind = "rss" THEN RssTopic(s.articles[i], i) ELSE ApiTopic(s.articles[i], i)

\* place of titled article i among all titled articles: behind every higher
\* score, and behind every equal score met earlier
PlaceOf(s, i) ==
  1 + Cardinality({j \in Titled(s.articles) :
                     \/ ScoreOf(s, j) > ScoreOf(s, i)
                     \/ ScoreOf(s, j) = ScoreOf(s, i) /\ j < i})

\* C2: trends is the first top_n of all titled articles in stable descending
\* score order: scores never increase along the list, equal scores keep their
\* encounter order, and nothing cut off scores higher than something kept
C2_StableDescendingPrefix ==
  \A s \in Summaries :
     LET trends == s.data.trends
         n == Cardinality(Titled(s.articles))
     IN /\ Len(trends) = Min(s.top_n, n)
        /\ \A k, l \in 1..Len(trends) : k < l => trends[k][s.key] >= trends[l][s.key]
        /\ \A i \in Titled(s.articles) :
              IF PlaceOf(s, i) <= s.top_n
              THEN trends[PlaceOf(s, i)] = [TopicOf(s, i) EXCEPT !.rank = PlaceOf(s, i)]
              ELSE \A k \in 1..Len(trends) : ScoreOf(s, i) <= trends[k][s.key]

\* C2 witness: two equal-scored topics from different feeds are kept in fetch
\* order and a lower-scored topic is cut off
C2_Witness ==
  /\ rss_data # None
  /\ Len(rss_data.trends) = 2
  /\ rss_data.total_trending_topics = 3
  /\ rss_data.trends[1].recency_score = rss_data.trends[2].recency_score
  /\ rss_data.trends[1].source # rss_data.trends[2].source
  /\ rss_data.trends[1].source = rss_articles[2].source
  /\ rss_data.trends[2].source = rss_articles[3].source

RECURSIVE SumOver(_, _)
SumOver(f, D) ==
  IF D = {} THEN 0
  ELSE LET c == CHOOSE x \in D : TRUE IN f[c] + SumOver(f, D \ {c})

\* C3: the values of category_breakdown sum to len(trends), and each
\* category's count is the number of topics in trends carrying it
C3_BreakdownCountsTrends ==
  \A s \in Summaries :
     LET trends == s.data.trends
         breakdown == s.data.category_breakdown
     IN /\ SumOver(breakdown, DOMAIN breakdown) = Len(trends)
        /\ DOMAIN breakdown = {trends[k].category : k \in 1..Len(trends)}
        /\ \A c \in DOMAIN breakdown :
              breakdown[c] = Cardinality({k \in 1..Len(trends) : trends[k].category = c})

\* C3 witness: a summary whose list was cut, with a category counted twice
C3_Witness ==
  /\ news_data # None
  /\ news_data.total_trending_topics > Len(news_data.trends)
  /\ \E c \in DOMAIN news_data.category_breakdown : news_data.category_breakdown[c] = 2

(* ==================== properties of the combined run =================== *)
Finished == pc = "exit"

\* a source's fetches all came back without items
NoItemsFrom(label) ==
  \A k \in 1..Len(fetch_log) : fetch_log[k].source = label => fetch_log[k].n = 0

\* C4: if every headline call and every feed fetch returns no items, the
\* combine step yields no snapshot (no file) and main reports failure (1)
C4_AllFetchesFailMeansFailure ==
  (Finished /\ \A k \in 1..Len(fetch_log) : fetch_log[k].n = 0)
     => combined_file = "None" /\ exit_code = 1

\* a collection neither failed nor came back without data
Succeeded(label) ==
  /\ label \notin raised
  /\ Fetched(label) > 0
  /\ ~NoItemsFrom(label)

InSources(label) ==
  \E k \in 1..Len(combined_data.sources) : combined_data.sources[k] = label

\* C5: a label is in 'sources' iff that source's collection neither failed nor
\* produced no data; a source whose fetches all returned zero articles is
\* neither listed nor embedded
C5_SourcesAreTheSucceeded ==
  Finished =>
     /\ InSources("NewsAPI") <=> Succeeded("NewsAPI")
     /\ InSources("RSS Feeds") <=> Succeeded("RSS Feeds")
     /\ "newsapi" \in DOMAIN combined_data => Len(news_articles) > 0
     /\ "rss_feeds" \in DOMAIN combined_data => Len(rss_articles) > 0

\* C6: main returns 0 exactly when the combined snapshot has a non-empty
\* 'sources' list and was written, and 1 in every other run
C6_ExitCode ==
  Finished =>
     /\ exit_code \in {0, 1}
     /\ exit_code = 0 <=> (combined_data.sources # <<>> /\ combined_file = "written")

\* C6 witness: a run that ends with 1, both collections having raised
C6_Witness ==
  /\ Finished
  /\ exit_code = 1
  /\ raised = {"NewsAPI", "RSS Feeds"}
  /\ combined_data.sources = <<>>

(* ================= properties of the scorers and categorizers =========== *)
Scored(kind) == fn_in.kind = kind /\ fn_out.done

Parseable(ts) ==
  TsTruthy(ts) /\ \E k \in 1..Len(RecencyFormats) : StrptimeParses(ts.shape, RecencyFormats[k])

\* C7: _calculate_engagement returns a score between 50 and 100 for every
\* source name, every publishedAt and with or without a description
C7_EngagementRange ==
  Scored("engagement") => 50 <= fn_out.score /\ fn_out.score <= 100

\* C7 witness: every boost applies and the score stands at the cap
C7_Witness ==
  /\ Scored("engagement")
  /\ AnyIn(Lower(fn_in.arg.source_name), Reputable)
  /\ FromIsoParses(fn_in.arg.publishedAt.shape) /\ fn_in.arg.publishedAt.age = 30
  /\ Truthy(fn_in.arg.description)
  /\ fn_out.score = 100

\* C8 as claimed: a parseable feed timestamp of age 30 minutes scores 100,
\* of age 25 hours scores 70, of age 72 hours scores 30
C8_Claimed ==
  (Scored("recency") /\ Parseable(fn_in.arg)) =>
     /\ fn_in.arg.age = 30 => fn_out.score = 100
     /\ fn_in.arg.age = 25 * 60 => fn_out.score = 70
     /\ fn_in.arg.age = 72 * 60 => fn_out.score = 30

\* C8 amended: a parseable feed timestamp of age 30 minutes scores 100,
\* of age 25 hours scores 50, of age 72 hours scores 30
C8_RecencyBreakpoints ==
  (Scored("recency") /\ Parseable(fn_in.arg)) =>
     /\ fn_in.arg.age = 30 => fn_out.score = 100
     /\ fn_in.arg.age = 25 * 60 => fn_out.score = 50
     /\ fn_in.arg.age = 72 * 60 => fn_out.score = 30

\* C8 witness: a parseable timestamp 25 hours old has been scored
C8_Witness ==
  Scored("recency") /\ Parseable(fn_in.arg) /\ fn_in.arg.age = 25 * 60

IsString(ts) == ts.shape # "none"

\* C9 as claimed: _calculate_recency returns 25 for every timestamp string
\* that is empty or matches none of the formats
C9_Claimed ==
  (Scored("recency") /\ IsString(fn_in.arg) /\ ~Parseable(fn_in.arg)) => fn_out.score = 25

\* C9 amended: _calculate_recency returns 25 for every non-empty timestamp
\* string that matches none of the formats, and 0 for the empty string
C9_RecencyDefault ==
  (Scored("recency") /\ IsString(fn_in.arg)) =>
     /\ (fn_in.arg.shape # "empty" /\ ~Parseable(fn_in.arg)) => fn_out.score = 25
     /\ fn_in.arg.shape = "empty" => fn_out.score = 0

\* C9 witness: an RFC 822 date with a zone name, which no format accepts
C9_Witness ==
  Scored("recency") /\ fn_in.arg.shape = "rfc822_gmt" /\ fn_out.score = 25

\* the text both categorizers search
TitleDesc(a) == Lower(a.title \o <<" ">> \o a.description)

\* category c is the first, in the order of rules, with a keyword in text
FirstInOrder(rules, text, c) ==
  \/ /\ c = "General"
     /\ \A k \in 1..Len(rules) : ~AnyIn(text, rules[k].keywords)
  \/ \E k \in 1..Len(rules) :
        /\ rules[k].name = c
        /\ \E w \in 1..Len(rules[k].keywords) : Contains(text, rules[k].keywords[w])
        /\ \A j \in 1..(k - 1) : ~AnyIn(text, rules[j].keywords)

RuleNames(rules) == [k \in 1..Len(rules) |-> rules[k].name]

HasText(a) == ~IsNone(a.title) /\ ~IsNone(a.description)

BothTechAndEconomy(a) ==
  /\ Contains(TitleDesc(a), <<"t","e","c","h">>)
  /\ Contains(TitleDesc(a), <<"e","c","o","n","o","m","y">>)

\* C10 as claimed: each categorizer returns the first category, in the fixed
\* order, with a keyword in the lower-cased title+description, else General,
\* so that the result depends on that text alone
C10_Claimed ==
  /\ (Scored("api_category") /\ HasText(fn_in.arg)) =>
        FirstInOrder(ApiCategories, TitleDesc(fn_in.arg), fn_out.category)
  /\ (Scored("rss_category") /\ HasText(fn_in.arg)) =>
        FirstInOrder(RssCategories, TitleDesc(fn_in.arg), fn_out.category)

\* C10 amended: the rules are tried in the order Technology, Business,
\* Politics, Sports, [Entertainment for the API source], Health, Science over
\* the lower-cased title+description, first match wins, else General; the
\* feed categorizer first returns Technology for a source name containing
\* 'techcrunch', 'verge' or 'hacker', whatever the text; a text with both
\* 'tech' and 'economy' is Technology
C10_FirstMatchWins ==
  /\ RuleNames(ApiCategories) = <<"Technology", "Business", "Politics", "Sports",
                                  "Entertainment", "Health", "Science">>
  /\ RuleNames(RssCategories) = <<"Technology", "Business", "Politics", "Sports",
                                  "Health", "Science">>
  /\ (Scored("api_category") /\ HasText(fn_in.arg)) =>
        /\ FirstInOrder(ApiCategories, TitleDesc(fn_in.arg), fn_out.category)
        /\ BothTechAndEconomy(fn_in.arg) => fn_out.category = "Technology"
  /\ (Scored("rss_category") /\ HasText(fn_in.arg)) =>
        /\ IF AnyIn(Lower(fn_in.arg.source), RssSourceRules)
           THEN fn_out.category = "Technology"
           ELSE FirstInOrder(RssCategories, TitleDesc(fn_in.arg), fn_out.category)
        /\ BothTechAndEconomy(fn_in.arg) => fn_out.category = "Technology"

\* C10 witness: a TechCrunch item whose text only matches a Business keyword
C10_Witness ==
  /\ Scored("rss_category") /\ HasText(fn_in.arg)
  /\ AnyIn(Lower(fn_in.arg.source), RssSourceRules)
  /\ FirstInOrder(RssCategories, TitleDesc(fn_in.arg), "Business")
  /\ fn_out.category = "Technology"

(* ===================== properties of the error handling ================ *)
\* C11: without an API key, test_data_collection never builds the API
\* collector and makes no headline request, the feeds are still all fetched
\* afterwards, and 'NewsAPI' is not among the snapshot's sources
C11_NoKeySkipsApi ==
  (entry = "main" /\ ~cfg.api_key) =>
     /\ pc # "news_fetch"
     /\ Fetched("NewsAPI") = 0
     /\ news_data = None
     /\ pc \in {"combine", "return", "exit"} => Fetched("RSS Feeds") = Len(Feeds)
     /\ pc \in {"return", "exit"} =>
           /\ ~InSources("NewsAPI")
           /\ "newsapi" \notin DOMAIN combined_data

\* C11 witness: a finished run without a key whose snapshot lists the feeds
C11_Witness ==
  /\ entry = "main" /\ ~cfg.api_key
  /\ Finished
  /\ combined_data.sources = <<"RSS Feeds">>
  /\ rss_data.total_articles > 0

RECURSIVE SumN(_, _)
SumN(log, k) == IF k = 0 THEN 0 ELSE log[k].n + SumN(log, k - 1)

\* what the direct call fetches from, in order, and what it has gathered
Configured == IF entry = "rss_collect" THEN Feeds ELSE Categories

Gathered == IF entry = "rss_collect" THEN rss_articles ELSE news_articles

FeedIndex(name) == CHOOSE k \in 1..Len(Feeds) : Feeds[k] = name

\* C12: a fetch that fails returns an empty list without raising, and the run
\* goes on: every configured feed (or category) is fetched, in order, and the
\* items of each fetch are among the collected articles
C12_FailedFetchContinues ==
  /\ \A k \in 1..Len(fetch_log) :
        /\ ~fetch_log[k].ok => fetch_log[k].n = 0
        /\ fetch_log[k].what = Configured[k]
  /\ Len(Gathered) = SumN(fetch_log, Len(fetch_log))
  /\ entry = "rss_collect" =>
        /\ \A k \in 1..Len(fetch_log) :
              Cardinality({i \in 1..Len(rss_articles) : rss_articles[i].source = Feeds[k]})
                 = fetch_log[k].n
        /\ \A i, j \in 1..Len(rss_articles) :
              i < j => FeedIndex(rss_articles[i].source) <= FeedIndex(rss_articles[j].source)
  /\ pc = "done" =>
        /\ Len(fetch_log) = Len(Configured)
        /\ raised # {} => AnalyzeRaises(Gathered)

\* C12 witness: the first feed failed, the second delivered, and the summary
\* holds the second feed's items
C12_Witness ==
  /\ entry = "rss_collect" /\ pc = "done"
  /\ ~fetch_log[1].ok
  /\ fetch_log[2].n >= 2
  /\ rss_data # None
  /\ rss_data.total_articles = fetch_log[2].n
  /\ Len(rss_data.trends) >= 1

\* a record with a missing (None) field
BadRecord(a) == IsNone(a.title) \/ IsNone(a.description)

Returned == IF entry = "rss_collect" THEN rss_data ELSE news_data

TopN == IF entry = "rss_collect" THEN cfg.rss_top_n ELSE cfg.news_top_n

\* C13: one record with a missing or None field does not drop the batch: the
\* collection does not fail, and every other titled item is a topic of the
\* summary (when top_n does not cut the list)
C13_OneBadRecordKeepsBatch ==
  (/\ pc = "done"
   /\ Cardinality({i \in 1..Len(Gathered) : BadRecord(Gathered[i])}) = 1)
     => /\ raised = {}
        /\ Returned # None
        /\ TopN >= Len(Gathered) =>
              \A i \in 1..Len(Gathered) :
                 (Truthy(Gathered[i].title) /\ ~BadRecord(Gathered[i])) =>
                    \E k \in 1..Len(Returned.trends) :
                       /\ Returned.trends[k].title = Gathered[i].title
                       /\ Returned.trends[k].url = Gathered[i].url

(* ================== more properties of the two scorers ================= *)
\* C14: for a timestamp that parses, with age h in hours, _calculate_recency
\* returns 100 if h < 1, 90 if 1 <= h < 6, 70 if 6 <= h < 24, 50 if
\* 24 <= h < 48 and 30 if h >= 48 (ages are in minutes here)
C14_RecencyBuckets ==
  (Scored("recency") /\ Parseable(fn_in.arg)) =>
     LET m == fn_in.arg.age
     IN /\ m < 60 => fn_out.score = 100
        /\ (60 <= m /\ m < 360) => fn_out.score = 90
        /\ (360 <= m /\ m < 1440) => fn_out.score = 70
        /\ (1440 <= m /\ m < 2880) => fn_out.score = 50
        /\ 2880 <= m => fn_out.score = 30

\* C14 witness: a timestamp exactly 24 hours old falls in the lower bucket
C14_Witness ==
  /\ Scored("recency") /\ Parseable(fn_in.arg)
  /\ fn_in.arg.age = 1440
  /\ fn_out.score = 50

\* the three boosts of the engagement score, as C15 states them
BoostR(a) ==
  IF \E k \in 1..Len(Reputable) : Contains(Lower(a.source_name), Reputable[k])
  THEN 20 ELSE 0

BoostT(a) ==
  IF a.publishedAt.shape \in {"none", "empty"} \/ ~FromIsoParses(a.publishedAt.shape)
  THEN 0
  ELSE IF a.publishedAt.age < 1440 THEN 20
  ELSE IF a.publishedAt.age < 2880 THEN 10
  ELSE 0

BoostD(a) == IF a.description \in {NoneVal, <<>>} THEN 0 ELSE 10

\* C15: _calculate_engagement returns min(100, 50 + R + T + D): R = 20 for a
\* reputable source name (case-insensitive substring), T = 20 under 24 h, 10
\* from 24 h to under 48 h, 0 otherwise and for an empty or unparseable
\* publishedAt, D = 10 for a non-empty description
C15_EngagementFormula ==
  Scored("engagement") =>
     LET total == 50 + BoostR(fn_in.arg) + BoostT(fn_in.arg) + BoostD(fn_in.arg)
     IN fn_out.score = (IF total > 100 THEN 100 ELSE total)

\* C15 witness: a reputable source, an article between 24 and 48 hours old,
\* a description present: 50 + 20 + 10 + 10
C15_Witness ==
  /\ Scored("engagement")
  /\ BoostR(fn_in.arg) = 20 /\ BoostT(fn_in.arg) = 10 /\ BoostD(fn_in.arg) = 10
  /\ fn_out.score = 90

\* a finished call of fetch_feed
FetchReturned == fn_in.kind = "fetch_feed" /\ fn_out.done

\* the elements of a document that one pass looks at
Looked(elements) == SubSeq(elements, 1, Min(fn_in.arg.max_items, Len(elements)))

\* the articles one pass makes from the RSS items it looks at
FromItems(items) ==
  [k \in 1..Len(items) |->
     [title |-> IF items[k].title = Absent THEN <<>> ELSE items[k].title,
      description |-> IF items[k].description = Absent THEN <<>> ELSE items[k].description,
      url |-> items[k].link, published_at |-> items[k].pubDate,
      source |-> fn_in.arg.feed_name]]

\* the articles one pass makes from the Atom entries it looks at
FromEntries(entries) ==
  [k \in 1..Len(entries) |->
     [title |-> IF entries[k].title = Absent THEN <<>> ELSE entries[k].title,
      description |-> IF entries[k].summary = Absent THEN <<>> ELSE entries[k].summary,
      url |-> entries[k].href, published_at |-> entries[k].published,
      source |-> fn_in.arg.feed_name]]

\* C16: fetch_feed returns the articles of the RSS pass when that pass found
\* at least one item, with no Atom entry among them, and the articles of the
\* Atom pass only when the RSS pass found none; either way at most max_items
\* articles, each with the feed's name as its source
C16_AtomOnlyAfterEmptyRss ==
  FetchReturned /\ fn_in.arg.doc.ok =>
     LET rss == FromItems(Looked(fn_in.arg.doc.items))
         atom == FromEntries(Looked(fn_in.arg.doc.entries))
         result == fn_out.items
     IN /\ rss # <<>> => result = rss
        /\ rss = <<>> => result = atom
        /\ Len(result) <= fn_in.arg.max_items
        /\ \A k \in 1..Len(result) : result[k].source = fn_in.arg.feed_name

\* C16 witness: a document holding an RSS item and an Atom entry, fetched with
\* room for both, gives the item alone
C16_Witness ==
  /\ FetchReturned /\ fn_in.arg.doc.ok
  /\ fn_in.arg.max_items >= 2
  /\ Len(fn_in.arg.doc.items) = 1 /\ Len(fn_in.arg.doc.entries) = 1
  /\ Len(fn_out.items) = 1
  /\ fn_out.items[1].url = fn_in.arg.doc.items[1].link
  /\ fn_out.items[1].url # fn_in.arg.doc.entries[1].href

\* no usable title: None or the empty string
Untitled(title) == title = NoneVal \/ title = <<>>

\* how many of the gathered articles have a usable title
TitledCount(articles) ==
  Cardinality({i \in 1..Len(articles) : ~Untitled(articles[i].title)})

\* C17: untitled items are dropped when topics are built, not when they are
\* fetched: in every summary total_articles counts every fetched item,
\* total_trending_topics counts the fetched items that have a non-empty
\* title, no trend has an empty title, and top_trends_count =
\* min(top_n, total_trending_topics) <= total_trending_topics <= total_articles
C17_UntitledDroppedAtTopics ==
  \A s \in Summaries :
     LET d == s.data
     IN /\ d.total_articles = Len(s.articles)
        /\ d.total_articles = SumN(fetch_log, Len(fetch_log))
        /\ d.total_trending_topics = TitledCount(s.articles)
        /\ \A k \in 1..Len(d.trends) : ~Untitled(d.trends[k].title)
        /\ d.top_trends_count = Len(d.trends)
        /\ d.top_trends_count = (IF s.top_n < d.total_trending_topics
                                 THEN s.top_n ELSE d.total_trending_topics)
        /\ d.top_trends_count <= d.total_trending_topics
        /\ d.total_trending_topics <= d.total_articles

\* C17 witness: an RSS summary over three fetched items, one of them without
\* a title, cut to the first of its two topics
C17_Witness ==
  /\ rss_data # None
  /\ \E i \in 1..Len(rss_articles) : Untitled(rss_articles[i].title)
  /\ rss_data.total_articles = 3
  /\ rss_data.total_trending_topics = 2
  /\ rss_data.top_trends_count = 1
====
